---- MODULE Spec2Model ----
(***************************************************************************)
(* Match-bin selectors of Empirical (matchbin_selectors.h, carried in      *)
(* src/apps/MABE/examples/NK.cfg from line 47 on): RankedSelector,         *)
(* RouletteSelector and ExpRouletteSelector, and the cache states they     *)
(* return, RankedCacheState and RouletteCacheState.                        *)
(*                                                                         *)
(* Numbers.  A double is modelled by an exact rational <<num, den>> in     *)
(* lowest terms with den > 0; +infinity is <<1, 0>>.  Rounding, overflow   *)
(* and underflow of IEEE doubles are outside the model.                    *)
(*                                                                         *)
(* Library code.  std::partial_sort and std::partition leave part of the   *)
(* order of their result unspecified, so a Selector call is modelled by    *)
(* the SET of outcomes a conforming library can produce; an action picks   *)
(* one of them.  emp_assert is modelled as compiled in (no NDEBUG): a      *)
(* failed assertion ends the call.  emp::IndexMap and emp::Random are not  *)
(* among the sources; they are modelled from the contract the              *)
(* specification states for them.                                          *)
(***************************************************************************)
EXTENDS Integers, Sequences, FiniteSets, TLC

\* ------------------------------------------------------------------ bounds

\* Number of distinct uids a snapshot can hold.
MaxUids == 3
\* Largest count n passed to a RankedSelector call; its cache state is also
\* queried for one more.
MaxN == 3
\* Largest count n passed to a Selector call or to a query of the weighted policies.
MaxDraws == 2
\* Number of states of the modelled random source.
RandMod == 3

UID == 1..MaxUids
Counts == 0..MaxN
DrawCounts == 0..MaxDraws

\* ------------------------------------------------------- rational numbers

RECURSIVE GCD(_, _)
GCD(a, b) == IF b = 0 THEN a ELSE GCD(b, a % b)

Abs(x) == IF x < 0 THEN -x ELSE x

\* The rational n/d (d > 0) in lowest terms.
Rat(n, d) == LET g == GCD(Abs(n), d) IN <<n \div g, d \div g>>

Inf == <<1, 0>>
IsInf(x) == x[2] = 0
Zero == <<0, 1>>
One == <<1, 1>>

RLe(a, b) == IF IsInf(b) THEN TRUE
             ELSE IF IsInf(a) THEN FALSE
             ELSE a[1] * b[2] <= b[1] * a[2]
RLt(a, b) == ~RLe(b, a)
RAdd(a, b) == Rat(a[1] * b[2] + b[1] * a[2], a[2] * b[2])
RSub(a, b) == Rat(a[1] * b[2] - b[1] * a[2], a[2] * b[2])
RMul(a, b) == Rat(a[1] * b[1], a[2] * b[2])
\* 1 / a, for a > 0.
RInv(a) == Rat(a[2], a[1])
\* std::min(a, b): b only when b < a.
RMinUncapped(a, b) == a
RMin(a, b) == IF RLt(b, a) THEN b ELSE a

Min2(a, b) == IF b < a THEN b ELSE a

\* --------------------------------------------------------------- snapshot

\* Scores a uid can have: tenths, one of them negative (regulation).
ScoreVals == {Rat(-1, 10), Rat(1, 10), Rat(4, 10), Rat(9, 10)}

Range(s) == {s[i] : i \in DOMAIN s}

\* Sequences of pairwise distinct uids (a match bin names each candidate once).
\* A uid is an opaque key: the code never compares or computes with one, so the
\* sequences are taken up to renaming of the uids, in increasing order; the
\* scores by position are arbitrary.
UidSeqs == UNION {{s \in [1..k -> UID] : \A i, j \in 1..k : i < j => s[i] < s[j]}
                  : k \in 0..MaxUids}

\* A lookup for exactly the uids of the sequence u, or for all of them but one
\* (the contract violation of a uid without a score).
Lookups(u) ==
  UNION {[D -> ScoreVals] : D \in {Range(u)} \cup {Range(u) \ {x} : x \in Range(u)}}

\* ---------------------------------------------------------- configuration

\* std::ratio<num, den> template arguments, den > 0.
Ratio(n, d) == [num |-> n, den |-> d]

\* A negative numerator of ThreshRatio or MaxBaselineRatio means +infinity.
ThreshOfLiteral(r) == Rat(r.num, r.den)
ThreshOf(r) == IF r.num < 0 THEN Inf ELSE Rat(r.num, r.den)

\* Instantiations of RankedSelector<ThreshRatio, DefaultN>.
RankedConfigs ==
  {[policy |-> "Ranked", ThreshRatio |-> t, DefaultN |-> d]
     : t \in {Ratio(-1, 1), Ratio(1, 2)}, d \in {1, 2}}

\* The thresholds and baseline caps the weighted policies are instantiated
\* with; a capped instantiation has DefaultN = 2, an uncapped one DefaultN = 1.
ThreshRatios == {Ratio(-1, 1), Ratio(1, 2)}
MaxBaselineRatios == {Ratio(-1, 1), Ratio(1, 5)}
DefaultNFor(m) == IF m.num < 0 THEN 1 ELSE 2

\* Instantiations of RouletteSelector<ThreshRatio, SkewRatio, MaxBaselineRatio,
\* DefaultN>; the last has an invalid skew.
RouletteConfigs ==
  {[policy |-> "Roulette", ThreshRatio |-> t, SkewRatio |-> Ratio(1, 10),
    MaxBaselineRatio |-> m, DefaultN |-> DefaultNFor(m)]
     : t \in ThreshRatios, m \in MaxBaselineRatios}
  \cup {[policy |-> "Roulette", ThreshRatio |-> Ratio(-1, 1), SkewRatio |-> Ratio(0, 1),
         MaxBaselineRatio |-> Ratio(1, 1), DefaultN |-> 1]}

\* Instantiations of ExpRouletteSelector<ThreshRatio, BRatio, CRatio, ZRatio,
\* MaxBaselineRatio, DefaultN>.  CRatio and ZRatio are chosen so that the
\* exponent (c * normalized) ^ z is a natural number for scores in tenths,
\* which keeps every weight rational.  The configurations of the second set
\* are invalid: b = 0, b = 1, c = 0, z = 0.
ExpValid(t, m) ==
  [policy |-> "ExpRoulette", ThreshRatio |-> t, BRatio |-> Ratio(1, 2),
   CRatio |-> Ratio(10, 1), ZRatio |-> Ratio(1, 1), MaxBaselineRatio |-> m,
   DefaultN |-> DefaultNFor(m)]
ExpRouletteConfigs ==
  {ExpValid(t, m) : t \in ThreshRatios, m \in MaxBaselineRatios}
  \cup {[ExpValid(Ratio(-1, 1), Ratio(5, 4)) EXCEPT !.BRatio = b]
          : b \in {Ratio(0, 1), Ratio(1, 1)}}
  \cup {[ExpValid(Ratio(-1, 1), Ratio(5, 4)) EXCEPT !.CRatio = Ratio(0, 1)],
         [ExpValid(Ratio(-1, 1), Ratio(5, 4)) EXCEPT !.ZRatio = Ratio(0, 1)]}

\* ------------------------------------------------------------ cache states

NoCache == [kind |-> "None"]

\* std::optional<emp::vector<size_t>>
NullOpt == [has |-> FALSE, val |-> <<>>]
Some(v) == [has |-> TRUE, val |-> v]

\* "if (n == 0) n = default_n;" of a CacheState query.
QueryNDropped(n, default_n) == n
QueryN(n, default_n) == IF n = 0 THEN default_n ELSE n

\* "if (n == 0) n = DefaultN;" of a Selector call.
SelectorNDropped(n, DefaultN) == n
SelectorN(n, DefaultN) == IF n = 0 THEN DefaultN ELSE n

\* RankedCacheState(begin, back, n, default_n_)
RankedCacheStateOfBack(sorted, back, n, default_n_) ==
  [kind |-> "Ranked",
   uids |-> SubSeq(sorted, 1, back),
   requestSize |-> back,
   default_n |-> default_n_]
RankedCacheState(sorted, back, n, default_n_) ==
  [kind |-> "Ranked",
   uids |-> SubSeq(sorted, 1, back),
   requestSize |-> n,
   default_n |-> default_n_]

\* RankedCacheState::operator()(n)
RankedCacheQueryByStored(cs, n0) ==
  LET n == QueryN(n0, cs.default_n) IN
  IF n > Len(cs.uids) THEN NullOpt
  ELSE Some(SubSeq(cs.uids, 1, n))
RankedCacheQueryWhole(cs, n0) ==
  LET n == QueryN(n0, cs.default_n) IN
  IF n > cs.requestSize THEN NullOpt
  ELSE Some(cs.uids)
RankedCacheQueryTail(cs, n0) ==
  LET n == QueryN(n0, cs.default_n) IN
  IF n > cs.requestSize THEN NullOpt
  ELSE IF n >= Len(cs.uids) THEN Some(cs.uids)
  ELSE Some(SubSeq(cs.uids, Len(cs.uids) - n + 1, Len(cs.uids)))
RankedCacheQuery(cs, n0) ==
  LET n == QueryN(n0, cs.default_n) IN
  IF n > cs.requestSize THEN NullOpt
  ELSE IF n >= Len(cs.uids) THEN Some(cs.uids)
  ELSE Some(SubSeq(cs.uids, 1, n))

\* --------------------------------------------------------- RankedSelector

\* The comparator of the partial sort: scores.at(a) < scores.at(b).
ScoreLessReversed(sc, a, b) == RLt(sc[b], sc[a])
ScoreLess(sc, a, b) == RLt(sc[a], sc[b])

\* std::partial_sort(first, first + k, last, comp): every rearrangement of u
\* whose first k places are in ascending order and hold k smallest elements.
PartialSortOfPrefixOnly(u, k, sc) ==
  {s \in [1..Len(u) -> Range(u)] :
     /\ Range(s) = Range(u)
     /\ {s[i] : i \in 1..k} = {u[i] : i \in 1..k}
     /\ \A i \in (k + 1)..Len(u) : s[i] = u[i]
     /\ \A i, j \in 1..k : i < j => ~RLt(sc[s[j]], sc[s[i]])}
PartialSortNotPermuting(u, k, sc) ==
  {s \in [1..Len(u) -> Range(u)] :
     /\ \A i, j \in 1..k : i < j => ~ScoreLess(sc, s[j], s[i])
     /\ \A i \in 1..k : \A j \in (k + 1)..Len(u) : ~ScoreLess(sc, s[j], s[i])}
PartialSort(u, k, sc) ==
  {s \in [1..Len(u) -> Range(u)] :
     /\ Range(s) = Range(u)
     /\ \A i, j \in 1..k : i < j => ~ScoreLess(sc, s[j], s[i])
     /\ \A i \in 1..k : \A j \in (k + 1)..Len(u) : ~ScoreLess(sc, s[j], s[i])}

\* The scan "while (back < uids.size() && back < n && scores.at(uids[back])
\* <= thresh) ++back;" started at back.
RECURSIVE ScanBack(_, _, _, _, _)
RECURSIVE ScanBackShort(_, _, _, _, _)
ScanBackShort(u, sc, n, thresh, back) ==
  IF back < Len(u) /\ back + 1 < n /\ RLe(sc[u[back + 1]], thresh)
  THEN ScanBackShort(u, sc, n, thresh, back + 1)
  ELSE back
ScanBackNoThreshold(u, sc, n, thresh, back) == Min2(n, Len(u))
ScanBack(u, sc, n, thresh, back) ==
  IF back < Len(u) /\ back < n /\ RLe(sc[u[back + 1]], thresh)
  THEN ScanBack(u, sc, n, thresh, back + 1)
  ELSE back

\* How a Selector call ends: by an exception, a failed assertion or a crash
\* (no cache state), or by returning one.  ub: the call read through an
\* invalid iterator on its way.
Failed(why) == [status |-> why, cache |-> NoCache, ub |-> FALSE]
Returned(cs) == [status |-> "ok", cache |-> cs, ub |-> FALSE]
Undefined(o) == [o EXCEPT !.ub = TRUE]

\* RankedSelector::operator()(uids_, scores, n): the outcomes of the call.
\* scores.at throws std::out_of_range for a uid without a score.
RankedSelectDefaulting(c, u_, sc, n0) ==
  LET n == SelectorN(n0, c.DefaultN)
      thresh == ThreshOf(c.ThreshRatio)
      sc0 == [x \in Range(u_) \cup DOMAIN sc |-> IF x \in DOMAIN sc THEN sc[x] ELSE Zero]
  IN {Returned(RankedCacheState(u, ScanBack(u, sc0, n, thresh, 0), n, c.DefaultN))
        : u \in PartialSort(u_, Min2(n, Len(u_)), sc0)}
RankedSelect(c, u_, sc, n0) ==
  LET n == SelectorN(n0, c.DefaultN)
      thresh == ThreshOf(c.ThreshRatio)
  IN IF ~(Range(u_) \subseteq DOMAIN sc) THEN {Failed("out_of_range")}
     ELSE {Returned(RankedCacheState(u, ScanBack(u, sc, n, thresh, 0), n, c.DefaultN))
             : u \in PartialSort(u_, Min2(n, Len(u_)), sc)}

\* ------------------------------------------------------------ emp::Random

\* The random source: a generator whose state steps through RandMod values.
RandomOf(s) == [state |-> s]
RandStep(r) == [state |-> (r.state + 1) % RandMod]
\* rand.GetDouble(max): a value in [0, max), taken from the advanced state.
RandGetDouble(r, max) == RMul(max, Rat(RandStep(r).state, RandMod))

\* ---------------------------------------------------------- emp::IndexMap

\* An IndexMap is the sequence of its slots' weights; slot p of the code is
\* place p + 1 of the sequence.
IndexMapNew(num_items) == [p \in 1..num_items |-> Zero]
IndexMapAdjust(im, p, w) == [im EXCEPT ![p + 1] = w]
IndexMapGetSize(im) == Len(im)

RECURSIVE IndexMapCumul(_, _)
IndexMapCumul(im, k) == IF k = 0 THEN Zero ELSE RAdd(IndexMapCumul(im, k - 1), im[k])

IndexMapGetWeight(im) == IndexMapCumul(im, Len(im))

\* Index(pos): the slot whose cumulative-weight range contains pos, found by
\* walking the slots from k on with what is left of pos; the size of the map
\* (no slot) when pos is not below the total weight.
RECURSIVE IndexMapWalk(_, _, _)
IndexMapWalk(im, pos, k) ==
  IF k > Len(im) THEN Len(im)
  ELSE IF RLt(pos, im[k]) THEN k - 1
  ELSE IndexMapWalk(im, RSub(pos, im[k]), k + 1)

IndexMapIndex(im, pos) == IndexMapWalk(im, pos, 1)

\* ------------------------------------------------------ RouletteCacheState

\* RouletteCacheState(im, ids, r, default_n_): every argument is copied.
RouletteCacheStateOfQualifying(im, ids, r, default_n_) ==
  [kind |-> "Roulette", indexMap |-> im, uids |-> SubSeq(ids, 1, Len(im)), rand |-> r,
   default_n |-> default_n_]
RouletteCacheState(im, ids, r, default_n_) ==
  [kind |-> "Roulette", indexMap |-> im, uids |-> ids, rand |-> r,
   default_n |-> default_n_]

\* The draw of one pass of the loop: the position match_pos, the random
\* source after it and the number of draws made.  A map of one slot takes
\* position 0 without a draw.
DrawAlways(im, r) ==
  [pos |-> RandGetDouble(r, IndexMapGetWeight(im)), rand |-> RandStep(r), draws |-> 1]
Draw(im, r) ==
  IF IndexMapGetSize(im) = 1
  THEN [pos |-> Zero, rand |-> r, draws |-> 0]
  ELSE [pos |-> RandGetDouble(r, IndexMapGetWeight(im)), rand |-> RandStep(r), draws |-> 1]

\* The loop "for (i = 0; i < n; ++i)" from pass i on, with res, rand and the
\* draws so far.
RECURSIVE DrawLoop(_, _, _, _, _, _)
DrawLoop(cs, n, i, res, r, draws) ==
  IF i < n
  THEN LET d == Draw(cs.indexMap, r)
           idx == IndexMapIndex(cs.indexMap, d.pos)
       IN DrawLoop(cs, n, i + 1, Append(res, cs.uids[idx + 1]), d.rand, draws + d.draws)
  ELSE [res |-> Some(res), rand |-> r, draws |-> draws]

\* RouletteCacheState::operator()(n): the result, the random source after
\* the query and the number of draws made.
RouletteCacheQueryNullOnEmpty(cs, n0) ==
  LET n == QueryN(n0, cs.default_n) IN
  IF IndexMapGetSize(cs.indexMap) = 0
  THEN [res |-> NullOpt, rand |-> cs.rand, draws |-> 0]
  ELSE DrawLoop(cs, n, 0, <<>>, cs.rand, 0)
RouletteCacheQuery(cs, n0) ==
  LET n == QueryN(n0, cs.default_n) IN
  IF IndexMapGetSize(cs.indexMap) = 0
  THEN [res |-> Some(<<>>), rand |-> cs.rand, draws |-> 0]
  ELSE DrawLoop(cs, n, 0, <<>>, cs.rand, 0)

\* ------------------------------------- RouletteSelector, ExpRouletteSelector

\* The predicate of the partition: scores.at(uid) <= thresh.
Qualifies(sc, thresh, uid) == RLe(sc[uid], thresh)

\* std::partition(begin, end, pred): every rearrangement of u with the uids
\* that satisfy pred before the others.
PartitionInPlace(u, sc, thresh) == {u}
Partition(u, sc, thresh) ==
  {s \in [1..Len(u) -> Range(u)] :
     /\ Range(s) = Range(u)
     /\ \A i, j \in 1..Len(u) :
          i < j => ~(~Qualifies(sc, thresh, s[i]) /\ Qualifies(sc, thresh, s[j]))}

\* std::distance(begin, partition point)
PartitionPoint(u, sc, thresh) == Cardinality({i \in 1..Len(u) : Qualifies(sc, thresh, u[i])})

\* std::min_element over the lookup: the smallest score of a non-empty lookup.
MinElementOfFirst(sc) == sc[CHOOSE x \in DOMAIN sc : \A y \in DOMAIN sc : x <= y]
MinElement(sc) ==
  CHOOSE m \in {sc[x] : x \in DOMAIN sc} : \A x \in DOMAIN sc : RLe(m, sc[x])

\* What dereferencing end() of an empty lookup can read, when it reads at all.
GarbageVals == ScoreVals

\* std::pow(x, e) for a natural exponent e.
RECURSIVE PowNat(_, _)
PowNat(x, e) == IF e = 0 THEN One ELSE RMul(x, PowNat(x, e - 1))
\* std::pow(x, e), e a rational that is a natural number.
Pow(x, e) == PowNat(x, (CHOOSE k \in {e[1]} : e[2] = 1 /\ k >= 0))

\* 1.0 / (skew + scores.at(uids[p]) - baseline)
RouletteWeightUnnormalized(c, score, baseline) ==
  RInv(RAdd(Rat(c.SkewRatio.num, c.SkewRatio.den), score))
RouletteWeight(c, score, baseline) ==
  RInv(RAdd(Rat(c.SkewRatio.num, c.SkewRatio.den), RSub(score, baseline)))

\* std::pow(b, std::pow(c * (scores.at(uids[p]) - baseline), z))
ExpRouletteWeightOfScore(c, score, baseline) ==
  Pow(Rat(c.BRatio.num, c.BRatio.den),
      Pow(RMul(Rat(c.CRatio.num, c.CRatio.den), score),
          Rat(c.ZRatio.num, c.ZRatio.den)))
ExpRouletteWeight(c, score, baseline) ==
  Pow(Rat(c.BRatio.num, c.BRatio.den),
      Pow(RMul(Rat(c.CRatio.num, c.CRatio.den), RSub(score, baseline)),
          Rat(c.ZRatio.num, c.ZRatio.den)))

\* The weight of a qualifying uid under the policy of c.
Weight(c, score, baseline) ==
  IF c.policy = "Roulette" THEN RouletteWeight(c, score, baseline)
  ELSE ExpRouletteWeight(c, score, baseline)

\* The loop "for (p = 0; p < partition; ++p) match_index.Adjust(p, weight)"
\* from slot p on.
RECURSIVE FillIndex(_, _, _, _, _, _, _)
RECURSIVE FillIndexInCallerOrder(_, _, _, _, _, _, _)
FillIndexInCallerOrder(c, u, sc, baseline, partition, p, im) ==
  IF p < partition
  THEN LET caller == CHOOSE s \in [1..Len(u) -> Range(u)] :
                       \A i, j \in 1..Len(u) : i < j => s[i] < s[j]
       IN FillIndexInCallerOrder(c, u, sc, baseline, partition, p + 1,
                 IndexMapAdjust(im, p, Weight(c, sc[caller[p + 1]], baseline)))
  ELSE im
FillIndex(c, u, sc, baseline, partition, p, im) ==
  IF p < partition
  THEN FillIndex(c, u, sc, baseline, partition, p + 1,
                 IndexMapAdjust(im, p, Weight(c, sc[u[p + 1]], baseline)))
  ELSE im

\* emp_assert(scores.at(uids[p]) - baseline >= 0) holds in every pass.
NormalizedOk(u, sc, baseline, partition) ==
  \A p \in 0..(partition - 1) : RLe(Zero, RSub(sc[u[p + 1]], baseline))

\* The configuration assertions at the head of the call: skew > 0, or
\* b > 0 && b < 1, c > 0, z > 0.
ConfigOkLax(c) ==
  IF c.policy = "Roulette" THEN c.SkewRatio.num >= 0
  ELSE /\ c.BRatio.num >= 0 /\ c.BRatio.num <= c.BRatio.den
       /\ c.CRatio.num >= 0
       /\ c.ZRatio.num >= 0
ConfigOk(c) ==
  IF c.policy = "Roulette" THEN c.SkewRatio.num > 0
  ELSE /\ c.BRatio.num > 0 /\ c.BRatio.num < c.BRatio.den
       /\ c.CRatio.num > 0
       /\ c.ZRatio.num > 0

\* The call from the partition on, with min_score read.
SelectWithMinUnchecked(c, u_, sc, r, min_score) ==
  LET thresh == ThreshOf(c.ThreshRatio)
      max_baseline == ThreshOf(c.MaxBaselineRatio)
      baseline == RMin(min_score, max_baseline)
      partition == PartitionPoint(u_, sc, thresh)
  IN IF ~(Range(u_) \subseteq DOMAIN sc) THEN {Failed("out_of_range")}
     ELSE {Returned(RouletteCacheState(
                  FillIndex(c, u, sc, baseline, partition, 0, IndexMapNew(partition)),
                  u, r, c.DefaultN))
             : u \in Partition(u_, sc, thresh)}
SelectWithMin(c, u_, sc, r, min_score) ==
  LET thresh == ThreshOf(c.ThreshRatio)
      max_baseline == ThreshOf(c.MaxBaselineRatio)
      baseline == RMin(min_score, max_baseline)
      partition == PartitionPoint(u_, sc, thresh)
  IN IF ~(Range(u_) \subseteq DOMAIN sc) THEN {Failed("out_of_range")}
     ELSE IF ~RLe(Zero, baseline) \/ ~RLe(baseline, max_baseline) THEN {Failed("assert")}
     ELSE {IF ~NormalizedOk(u, sc, baseline, partition) THEN Failed("assert")
           ELSE Returned(RouletteCacheState(
                  FillIndex(c, u, sc, baseline, partition, 0, IndexMapNew(partition)),
                  u, r, c.DefaultN))
             : u \in Partition(u_, sc, thresh)}

\* RouletteSelector::operator() and ExpRouletteSelector::operator() (uids_,
\* scores, n): the outcomes of the call.  min_element of an empty lookup is
\* end(), and reading through it is undefined: the call crashes, or goes on
\* with whatever it read.
WeightedSelect(c, u_, sc, r, n0) ==
  LET n == SelectorN(n0, c.DefaultN) IN
  IF ~ConfigOk(c) THEN {Failed("assert")}
  ELSE IF DOMAIN sc = {}
  THEN {Undefined(Failed("segfault"))}
       \cup {Undefined(o) : o \in UNION {SelectWithMin(c, u_, sc, r, g) : g \in GarbageVals}}
  ELSE SelectWithMin(c, u_, sc, r, MinElement(sc))

\* ------------------------------------------------- copies and references

\* A Selector call takes uids_ by reference to const and sorts or partitions
\* uids, its own copy ("emp::vector<size_t> uids(uids_);"): the caller's
\* sequence after a call that ended as o.
CallerUidsAfterCallInPlace(u_, o) ==
  IF o.cache.kind = "Roulette" THEN o.cache.uids ELSE u_
CallerUidsAfterCall(u_, o) == u_

\* The members of a cache state are values, copied at construction, none a
\* reference or an iterator: the cache state cs after the caller has
\* rewritten its sequence to u and its lookup to sc.
MembersAfterWriteShared(cs, u, sc) ==
  IF cs.kind = "None" THEN cs ELSE [cs EXCEPT !.uids = u]
MembersAfterWrite(cs, u, sc) == cs

\* RankedCacheState::operator()(n) assigns to its parameter n and to no
\* member: the cache state after the query.
RankedCacheAfterQueryTruncating(cs, n0) ==
  [cs EXCEPT !.uids = SubSeq(cs.uids, 1, Min2(QueryN(n0, cs.default_n), Len(cs.uids)))]
RankedCacheAfterQuery(cs, n0) == cs

\* RouletteCacheState::operator()(n) draws from the member rand and assigns
\* to no other member: the cache state after a query that left the random
\* source as r.
RouletteCacheAfterQuery(cs, r) == [cs EXCEPT !.rand = r]

\* The member "emp::Random rand;" of a RouletteCacheState is a value, copied
\* from the Selector's "emp::Random & rand" by "rand(r)": the Selector's
\* random source s after a query that left the cache state's source as r.
SelectorRandAfterQueryShared(s, r) == r
SelectorRandAfterQuery(s, r) == s

\* What a caller does to its snapshot once the Selector call has returned:
\* destroys it (clears both), removes the last uid from its sequence,
\* rewrites the score of its first uid, or adds the next uid with a score.
SnapshotWrites(u, sc) ==
  {<<<<>>, [x \in {} |-> Zero]>>}
  \cup {<<SubSeq(u, 1, Len(u) - 1), sc>> : k \in {1} \cap DOMAIN u}
  \cup {<<u, [sc EXCEPT ![u[1]] = Rat(9, 10)]>> : k \in {1} \cap DOMAIN u}
  \cup {<<Append(u, x), (x :> Rat(1, 10)) @@ sc>>
          : x \in {y \in UID : /\ u # <<>> /\ y = u[Len(u)] + 1
                                /\ y \notin DOMAIN sc}}

\* ------------------------------------------------------------------ state

VARIABLES
  config,   \* the Selector's template arguments
  uids_,    \* the caller's uid sequence
  scores,   \* the caller's score lookup
  rand,     \* the emp::Random the Selector was constructed with
  status,   \* "idle" before the Selector call, then how the call ended
  ub,       \* the call read through an invalid iterator
  cache,    \* the CacheState the call returned, or NoCache
  queryN,   \* the n of the last query of the cache state, -1 before any
  result,   \* what the last query returned
  drawn     \* the number of draws the last query took from its random source

vars == <<config, uids_, scores, rand, status, ub, cache, queryN, result, drawn>>

InitSnapshot ==
  /\ uids_ \in UidSeqs
  /\ scores \in Lookups(uids_)
  /\ status = "idle"
  /\ ub = FALSE
  /\ cache = NoCache
  /\ queryN = -1
  /\ result = NullOpt
  /\ drawn = 0

\* RankedSelector(emp::Random&) ignores its argument.
InitRanked ==
  /\ config \in RankedConfigs
  /\ rand = RandomOf(0)
  /\ InitSnapshot

\* The generator is cyclic: the copy a cache state holds passes through every
\* state of the generator as queries draw from it.
InitRoulette ==
  /\ config \in RouletteConfigs \cup ExpRouletteConfigs
  /\ rand = RandomOf(0)
  /\ InitSnapshot

Init ==
  /\ config \in RankedConfigs \cup RouletteConfigs \cup ExpRouletteConfigs
  /\ rand = RandomOf(0)
  /\ InitSnapshot

\* The caller invokes the RankedSelector on its snapshot.
CallRanked ==
  /\ status = "idle"
  /\ config.policy = "Ranked"
  /\ \E n \in Counts : \E o \in RankedSelect(config, uids_, scores, n) :
       /\ status' = o.status
       /\ ub' = o.ub
       /\ cache' = o.cache
       /\ uids_' = CallerUidsAfterCall(uids_, o)
  /\ UNCHANGED <<config, scores, rand, queryN, result, drawn>>

\* The caller invokes the RouletteSelector on its snapshot.
CallRoulette ==
  /\ status = "idle"
  /\ config.policy = "Roulette"
  /\ \E n \in DrawCounts : \E o \in WeightedSelect(config, uids_, scores, rand, n) :
       /\ status' = o.status
       /\ ub' = o.ub
       /\ cache' = o.cache
       /\ uids_' = CallerUidsAfterCall(uids_, o)
  /\ UNCHANGED <<config, scores, rand, queryN, result, drawn>>

\* The caller invokes the ExpRouletteSelector on its snapshot.
CallExpRoulette ==
  /\ status = "idle"
  /\ config.policy = "ExpRoulette"
  /\ \E n \in DrawCounts : \E o \in WeightedSelect(config, uids_, scores, rand, n) :
       /\ status' = o.status
       /\ ub' = o.ub
       /\ cache' = o.cache
       /\ uids_' = CallerUidsAfterCall(uids_, o)
  /\ UNCHANGED <<config, scores, rand, queryN, result, drawn>>

\* A caller queries the RankedCacheState.
QueryRanked ==
  /\ cache.kind = "Ranked"
  /\ \E n \in 0..(MaxN + 1) :
       /\ queryN' = n
       /\ result' = RankedCacheQuery(cache, n)
       /\ cache' = RankedCacheAfterQuery(cache, n)
  /\ UNCHANGED <<config, uids_, scores, rand, status, ub, drawn>>

\* A caller queries the RouletteCacheState; the draws advance its own copy
\* of the random source.
QueryRoulette ==
  /\ cache.kind = "Roulette"
  /\ \E n \in DrawCounts :
       \E q \in {RouletteCacheQuery(cache, n)} :
       /\ queryN' = n
       /\ result' = q.res
       /\ drawn' = q.draws
       /\ cache' = RouletteCacheAfterQuery(cache, q.rand)
       /\ rand' = SelectorRandAfterQuery(rand, q.rand)
  /\ UNCHANGED <<config, uids_, scores, status, ub>>

\* The caller rewrites or destroys its snapshot after the Selector call has
\* returned a cache state.
WriteSnapshot ==
  /\ status = "ok"
  /\ \E w \in SnapshotWrites(uids_, scores) :
       /\ uids_' = w[1]
       /\ scores' = w[2]
       /\ cache' = MembersAfterWrite(cache, w[1], w[2])
  /\ UNCHANGED <<config, rand, status, ub, queryN, result, drawn>>

NextRanked == CallRanked \/ QueryRanked

NextRoulette == CallRoulette \/ CallExpRoulette \/ QueryRoulette

Next == NextRanked \/ NextRoulette

\* The RankedSelector and its cache state.
SpecRanked == InitRanked /\ [][NextRanked]_vars

\* The RouletteSelector, the ExpRouletteSelector and their cache state.
SpecRoulette == InitRoulette /\ [][NextRoulette]_vars

Spec == Init /\ [][Next]_vars

\* One instantiation of each selector, with a caller that goes on to write
\* its snapshot.
InitWritten ==
  /\ config \in {[policy |-> "Ranked", ThreshRatio |-> Ratio(1, 2), DefaultN |-> 2],
                  [policy |-> "Roulette", ThreshRatio |-> Ratio(1, 2), SkewRatio |-> Ratio(1, 10),
                   MaxBaselineRatio |-> Ratio(-1, 1), DefaultN |-> 1],
                  ExpValid(Ratio(1, 2), Ratio(1, 5))}
  /\ rand = RandomOf(0)
  /\ InitSnapshot

NextWritten == Next \/ WriteSnapshot

SpecWritten == InitWritten /\ [][NextWritten]_vars

\* ------------------------------------------------- claims: Ranked policy

\* The count a query evaluates: its n after default substitution.
Asked == IF queryN = 0 THEN cache.default_n ELSE queryN

RankedQueried == cache.kind = "Ranked" /\ queryN >= 0

\* The concrete scenario: candidates {A:0.1, B:0.4, C:0.9}, threshold 0.5.
Scenario ==
  /\ uids_ = <<1, 2, 3>>
  /\ scores = (1 :> Rat(1, 10)) @@ (2 :> Rat(4, 10)) @@ (3 :> Rat(9, 10))
  /\ config.policy = "Ranked"
  /\ config.ThreshRatio = Ratio(1, 2)

C2_ResultAscending ==
  (RankedQueried /\ result.has) =>
    \A i, j \in 1..Len(result.val) :
      i < j => RLe(scores[result.val[i]], scores[result.val[j]])

\* C2: the scenario with a request of 2 returns [A, B].
C2_Witness ==
  /\ Scenario /\ RankedQueried
  /\ cache.requestSize = 2 /\ Asked = 2
  /\ result = Some(<<1, 2>>)

\* C3: every uid a Ranked query returns has a score at or below the threshold.
C3_ResultWithinThreshold ==
  (RankedQueried /\ result.has) =>
    \A i \in 1..Len(result.val) :
      RLe(scores[result.val[i]], ThreshOf(config.ThreshRatio))

\* C3: a query returned uids while a candidate above a finite threshold was
\* within reach of the request.
C3_Witness ==
  /\ RankedQueried /\ result.has /\ Len(result.val) >= 1
  /\ config.ThreshRatio.num >= 0
  /\ Len(result.val) < Asked
  /\ \E x \in Range(uids_) : RLt(ThreshOf(config.ThreshRatio), scores[x])

\* C4: the k uids a Ranked query returns have the k smallest scores of the
\* snapshot: no candidate left out scores strictly below a returned one.
C4_ResultHoldsSmallest ==
  (RankedQueried /\ result.has) =>
    \A x \in Range(uids_) \ Range(result.val) :
      \A i \in 1..Len(result.val) : ~RLt(scores[x], scores[result.val[i]])

\* C4: a query returned some but not all candidates, out of their order in
\* the snapshot.
C4_Witness ==
  /\ RankedQueried /\ result.has
  /\ Len(result.val) >= 1 /\ Len(result.val) < Len(uids_)
  /\ result.val[1] # uids_[1]
  /\ \E x \in Range(uids_) \ Range(result.val) : RLt(scores[result.val[1]], scores[x])

\* C19: a Ranked query that does not return nullopt returns the first
\* min(n, stored size) uids of the stored prefix, in stored order.
C19_ResultIsStoredPrefix ==
  (RankedQueried /\ result.has) =>
    result.val = SubSeq(cache.uids, 1, Min2(Asked, Len(cache.uids)))

\* C19: a query for fewer uids than are stored returned the first of two
\* stored uids.
C19_Witness ==
  /\ RankedQueried /\ result.has
  /\ Asked = 1 /\ Len(cache.uids) = 2 /\ result.val = <<cache.uids[1]>>

\* C27: a RankedCacheState created by a Selector call with request n answers
\* a query m, both after default substitution, with a result exactly when
\* m <= n, whatever the number of uids it stores and of candidates that
\* qualify.
C27_PresentIffWithinRequest ==
  /\ (config.policy = "Ranked" /\ status = "idle") =>
       \A n \in Counts : \A o \in RankedSelect(config, uids_, scores, n) :
         o.status = "ok" =>
           \A m \in 0..(MaxN + 1) :
             RankedCacheQuery(o.cache, m).has
               <=> (QueryN(m, config.DefaultN) <= SelectorN(n, config.DefaultN))
  /\ RankedQueried => (result.has <=> Asked <= cache.requestSize)

\* C27: a query for two uids of a cache state created for one returned
\* nullopt although two candidates qualify.
C27_Witness ==
  /\ Scenario /\ RankedQueried
  /\ cache.requestSize = 1 /\ Asked = 2 /\ ~result.has

\* A sequence is a prefix of another.
IsPrefix(a, b) == Len(a) <= Len(b) /\ a = SubSeq(b, 1, Len(a))

\* C28: of two successful queries of one RankedCacheState, the result of the
\* one with the smaller count is a prefix of the result of the other,
\* whichever of them was issued first.
C28_ResultsNested ==
  (RankedQueried /\ result.has) =>
    \A m \in 0..(MaxN + 1) : \A r \in {RankedCacheQuery(cache, m)} :
      r.has =>
        /\ Asked <= QueryN(m, cache.default_n) => IsPrefix(result.val, r.val)
        /\ QueryN(m, cache.default_n) <= Asked => IsPrefix(r.val, result.val)

\* C28: a query returned one uid of a cache state whose query for two returns
\* two.
C28_Witness ==
  /\ RankedQueried /\ result.has /\ Len(result.val) = 1
  /\ Len(RankedCacheQuery(cache, 2).val) = 2

\* C30: a RankedCacheState stores, and its queries return, only uids of the
\* candidate sequence, each at most once; a call whose request and threshold
\* admit every candidate stores them all.
C30_ResultOfCandidatesOnce ==
  /\ cache.kind = "Ranked" =>
       /\ Range(cache.uids) \subseteq Range(uids_)
       /\ \A i, j \in 1..Len(cache.uids) : cache.uids[i] = cache.uids[j] => i = j
       /\ (config.ThreshRatio.num < 0 /\ cache.requestSize >= Len(uids_))
            => Range(cache.uids) = Range(uids_)
  /\ (RankedQueried /\ result.has) =>
       /\ Range(result.val) \subseteq Range(uids_)
       /\ \A i, j \in 1..Len(result.val) : result.val[i] = result.val[j] => i = j

\* C30: a query returned all three candidates, in another order than the
\* caller's.
C30_Witness ==
  /\ RankedQueried /\ result.has
  /\ Len(uids_) = 3 /\ Len(result.val) = 3 /\ result.val # uids_

\* C26: the stored prefix of a RankedSelector call with request n has length
\* min(n, number of candidates, number of candidates with score <=
\* threshold); a qualifying uid is left out only of a prefix of n uids that
\* all score at most as much.
C26_PrefixLength ==
  (config.policy = "Ranked" /\ status = "ok") =>
    /\ Len(cache.uids) =
         Min2(cache.requestSize,
              Min2(Len(uids_),
                   Cardinality({x \in Range(uids_) :
                                  RLe(scores[x], ThreshOf(config.ThreshRatio))})))
    /\ \A x \in Range(uids_) \ Range(cache.uids) :
         RLe(scores[x], ThreshOf(config.ThreshRatio)) =>
           /\ Len(cache.uids) = cache.requestSize
           /\ \A y \in Range(cache.uids) : RLe(scores[y], scores[x])

\* C26: of three candidates two are within the threshold; a request of three
\* stored those two.
C26_Witness ==
  /\ Scenario /\ status = "ok"
  /\ cache.requestSize = 3 /\ cache.uids = <<1, 2>>

\* ---------------------------------------------- claims: weighted policies

Weighted == config.policy \in {"Roulette", "ExpRoulette"}

RouletteQueried == cache.kind = "Roulette" /\ queryN >= 0

\* The qualifying uids of the snapshot: score <= threshold.
Qualifying ==
  {x \in Range(uids_) \cap DOMAIN scores : RLe(scores[x], ThreshOf(config.ThreshRatio))}

\* C5: with exactly one qualifying uid, a Roulette or ExpRoulette query
\* returns that uid n times and takes no draw from the random source.
C5_SingletonRepeatsWithoutDraw ==
  (RouletteQueried /\ Cardinality(Qualifying) = 1) =>
    /\ result = Some([i \in 1..Asked |-> CHOOSE x \in Qualifying : TRUE])
    /\ drawn = 0
    /\ cache.rand = rand

\* C5: one candidate of several qualifies, and a query for two returned it
\* twice.
C5_Witness ==
  /\ RouletteQueried /\ Cardinality(Qualifying) = 1 /\ Len(uids_) >= 2
  /\ Asked = 2 /\ Len(result.val) = 2 /\ result.val[1] = result.val[2]

\* C6: with a non-empty, fully scored snapshot of which no uid qualifies, the
\* call of a valid configuration raises no error, and a query returns a
\* present, empty sequence and takes no draw.
C6_NoneQualifyingGivesEmpty ==
  (/\ Weighted /\ ConfigOk(config) /\ status # "idle"
   /\ Len(uids_) >= 1 /\ Range(uids_) \subseteq DOMAIN scores /\ Qualifying = {}) =>
    /\ status = "ok" /\ ~ub
    /\ RouletteQueried =>
         /\ result = Some(<<>>)
         /\ drawn = 0
         /\ cache.rand = rand

\* C6: no candidate of two qualifies and the cache state was queried with 0.
C6_Witness ==
  /\ RouletteQueried /\ Len(uids_) >= 2 /\ Qualifying = {}
  /\ queryN = 0 /\ result = Some(<<>>)

\* C7, as stated: on an empty snapshot a Roulette or ExpRoulette call of a
\* valid configuration completes without error and without reading the
\* empty lookup, and every query of its cache state returns an empty result.
C7_EmptySnapshotSafe ==
  (Weighted /\ ConfigOk(config) /\ uids_ = <<>> /\ DOMAIN scores = {} /\ status # "idle") =>
    /\ status = "ok"
    /\ ~ub
    /\ (queryN >= 0 => result = Some(<<>>))

\* C8: with at least one qualifying uid, a query returns exactly n uids, all
\* of them qualifying.
C8_DrawsAreQualifying ==
  (RouletteQueried /\ Qualifying # {}) =>
    /\ result.has
    /\ Len(result.val) = Asked
    /\ \A i \in 1..Len(result.val) : result.val[i] \in Qualifying

\* C8: two of three candidates qualify, and a query drew twice and returned
\* both.
C8_Witness ==
  /\ RouletteQueried /\ Cardinality(Qualifying) = 2 /\ Len(uids_) = 3
  /\ drawn = 2 /\ Len(result.val) = 2 /\ result.val[1] # result.val[2]

\* The baseline of a call on a non-empty lookup.
Baseline == RMin(MinElement(scores), ThreshOf(config.MaxBaselineRatio))

\* Slot p of the index carries the weight of stored uid p.
SlotsAligned ==
  DOMAIN scores # {} =>
    \A p \in 1..IndexMapGetSize(cache.indexMap) :
      cache.indexMap[p] = Weight(config, scores[cache.uids[p]], Baseline)

\* C20, as stated: a RouletteCacheState stores the qualifying uids only: as
\* many uids as the index has slots, exactly those with score <= threshold,
\* slot p carrying the weight of stored uid p.
C20_StoresQualifyingOnly ==
  cache.kind = "Roulette" =>
    /\ Len(cache.uids) = IndexMapGetSize(cache.indexMap)
    /\ Range(cache.uids) = Qualifying
    /\ SlotsAligned

\* C20, amended: a RouletteCacheState stores the whole partitioned copy of
\* the snapshot: as many uids as the snapshot, the first of them, one for
\* each slot of the index, exactly those with score <= threshold, slot p
\* carrying the weight of stored uid p, and after them the others.
C20_StoresPartitionedSnapshot ==
  cache.kind = "Roulette" =>
    /\ Len(cache.uids) = Len(uids_)
    /\ Range(cache.uids) = Range(uids_)
    /\ IndexMapGetSize(cache.indexMap) = Cardinality(Qualifying)
    /\ {cache.uids[p] : p \in 1..IndexMapGetSize(cache.indexMap)} = Qualifying
    /\ SlotsAligned

\* C20: of three candidates one qualifies; the cache state stores all three
\* and weights one.
C20_Witness ==
  /\ cache.kind = "Roulette" /\ Len(uids_) = 3
  /\ Len(cache.uids) = 3 /\ IndexMapGetSize(cache.indexMap) = 1
  /\ cache.uids[1] \in Qualifying /\ cache.uids[2] \notin Qualifying

\* ------------------------------------------------ claims: all policies

\* The outcomes of the Selector call of the configured policy with count n.
Select(n) ==
  IF config.policy = "Ranked" THEN RankedSelect(config, uids_, scores, n)
  ELSE WeightedSelect(config, uids_, scores, rand, n)

\* C9: on every snapshot a Selector call with count 0 has the outcomes of a
\* call with count DefaultN: the same cache states, hence the same answers.
C9_ZeroCallIsDefaultCall ==
  status = "idle" => Select(0) = Select(config.DefaultN)

\* C9: a RankedSelector with DefaultN = 2 was called with 0 or with 2 where
\* two uids qualify, and the cache state answers a query with both.
C9_Witness ==
  /\ cache.kind = "Ranked" /\ config.DefaultN = 2
  /\ cache.requestSize = 2 /\ Len(cache.uids) = 2 /\ Len(uids_) = 3
  /\ queryN = 2 /\ result = Some(cache.uids)

\* C10: a query with n = 0 gives what a query with n = default_n gives: the
\* same optional for a RankedCacheState; for a RouletteCacheState the same
\* result, of the same length, from the same draws.
C10_ZeroQueryIsDefaultQuery ==
  /\ cache.kind = "Ranked" =>
       RankedCacheQuery(cache, 0) = RankedCacheQuery(cache, cache.default_n)
  /\ cache.kind = "Roulette" =>
       RouletteCacheQuery(cache, 0) = RouletteCacheQuery(cache, cache.default_n)

\* C10: a cache state of default count 2 was queried with 0 and returned two
\* uids.
C10_Witness ==
  /\ cache.kind \in {"Ranked", "Roulette"} /\ cache.default_n = 2
  /\ queryN = 0 /\ result.has /\ Len(result.val) = 2

\* ------------------------------------------------ claims: frame effects

\* C11: a cache state is a frozen view: a step that changes the caller's uid
\* sequence or score lookup after the Selector call has returned leaves every
\* stored field of the cache state, and so the answer to every query, as it
\* was.
C11_CacheStateFrozen ==
  [][(status = "ok" /\ (uids_' # uids_ \/ scores' # scores)) =>
       cache' = cache]_vars

\* C11: the snapshot was written after the call, and a query still returned
\* a uid the snapshot no longer holds.
C11_Witness ==
  /\ status = "ok" /\ queryN >= 0 /\ result.has
  /\ Len(result.val) >= 1 /\ result.val[1] \notin Range(uids_)

\* C12: a query has no effect on the cache state but the consumption of
\* randomness: a RankedCacheState query leaves every field, and with it the
\* answer to every count, as it was (so each query of a sequence answers as
\* a single query would); a RouletteCacheState query leaves the weight table,
\* the uid list and the default count as they were.
C12_QueriesKeepCacheState ==
  [][/\ cache.kind = "Ranked" =>
          /\ cache' = cache
          /\ \A n \in 0..(MaxN + 1) :
               RankedCacheQuery(cache', n) = RankedCacheQuery(cache, n)
     /\ cache.kind = "Roulette" =>
          /\ cache'.indexMap = cache.indexMap
          /\ cache'.uids = cache.uids
          /\ cache'.default_n = cache.default_n]_vars

\* C12: a RouletteCacheState of two weighted slots has answered a query of
\* two draws, which advanced its random source.
C12_Witness ==
  /\ cache.kind = "Roulette" /\ IndexMapGetSize(cache.indexMap) >= 2
  /\ drawn = 2 /\ cache.rand # rand /\ Len(result.val) = 2

\* C13: a Selector call of any policy, however it ends, leaves the caller's
\* uid sequence, in content and order, and the caller's score lookup as they
\* were.
C13_CallKeepsSnapshot ==
  [][(status = "idle" /\ status' # "idle") =>
       (uids_' = uids_ /\ scores' = scores)]_vars

\* C13: a call has partitioned its copy into an order other than the
\* caller's.
C13_Witness ==
  /\ status = "ok" /\ cache.kind = "Roulette"
  /\ Len(uids_) = 3 /\ cache.uids # uids_
  /\ IndexMapGetSize(cache.indexMap) = 2

\* --------------------------------------------- claims: contract violations

\* A Roulette or ExpRoulette call of a valid configuration has ended, on a
\* snapshot with a score for every uid.
WeightedCalled ==
  /\ Weighted /\ ConfigOk(config) /\ status # "idle"
  /\ Range(uids_) \subseteq DOMAIN scores

NegativeScore == \E x \in DOMAIN scores : RLt(scores[x], Zero)

\* C14, as stated: a call on a snapshot with a negative score ends without
\* an assertion failure and yields a cache state.
C14_NegativeScoresAccepted ==
  (WeightedCalled /\ NegativeScore) =>
    (status = "ok" /\ cache.kind = "Roulette")

\* C14, amended: a call on a snapshot with a negative score fails the
\* assertion baseline >= 0 and yields no cache state; on a non-empty lookup
\* of non-negative scores the call yields a cache state with one slot of
\* positive weight for each qualifying uid.
C14_NegativeScoresAsserted ==
  (WeightedCalled /\ DOMAIN scores # {}) =>
    IF NegativeScore
    THEN status = "assert" /\ cache = NoCache
    ELSE /\ status = "ok" /\ cache.kind = "Roulette" /\ ~ub
         /\ IndexMapGetSize(cache.indexMap) = Cardinality(Qualifying)
         /\ \A p \in 1..Len(cache.indexMap) : RLt(Zero, cache.indexMap[p])

\* C14: a call on two candidates, the better of them with a negative score,
\* has failed its assertion.
C14_Witness ==
  /\ WeightedCalled /\ Len(uids_) = 2
  /\ scores[uids_[1]] = Rat(-1, 10) /\ scores[uids_[2]] = Rat(4, 10)
  /\ status = "assert"

\* C15: a Selector call of any policy and any count on a sequence with a uid
\* that has no score fails and returns no cache state: by std::out_of_range
\* from scores.at, unless a failure that comes earlier in the call ends it
\* (an invalid configuration, or the read of an empty lookup).
C15_MissingScoreFails ==
  (status # "idle" /\ ~(Range(uids_) \subseteq DOMAIN scores)) =>
    /\ status # "ok" /\ cache = NoCache
    /\ config.policy = "Ranked" => status = "out_of_range"
    /\ (Weighted /\ ConfigOk(config) /\ DOMAIN scores # {}) => status = "out_of_range"
    /\ (Weighted /\ ConfigOk(config) /\ DOMAIN scores = {}) =>
         status \in {"out_of_range", "segfault"}
    /\ (Weighted /\ ~ConfigOk(config)) => status = "assert"

\* C15: a call on three candidates, one of them without a score, has ended
\* by std::out_of_range.
C15_Witness ==
  /\ Len(uids_) = 3 /\ Cardinality(DOMAIN scores) = 2
  /\ status = "out_of_range" /\ cache = NoCache

\* The configurations the contract rules out: Roulette with skew <= 0;
\* ExpRoulette with b <= 0, b >= 1, c <= 0 or z <= 0.
InvalidConfig ==
  \/ config.policy = "Roulette" /\ config.SkewRatio.num <= 0
  \/ /\ config.policy = "ExpRoulette"
     /\ \/ config.BRatio.num <= 0
        \/ config.BRatio.num >= config.BRatio.den
        \/ config.CRatio.num <= 0
        \/ config.ZRatio.num <= 0

\* C16: a call of a selector with an invalid configuration fails by assertion
\* before anything else of the call: it reads no score (not even of an empty
\* lookup or for an unscored uid) and produces no cache state.
C16_InvalidConfigFails ==
  (InvalidConfig /\ status # "idle") =>
    (status = "assert" /\ cache = NoCache /\ ~ub)

\* C16: an ExpRouletteSelector with b = 1 was called on two scored
\* candidates and failed its assertion.
C16_Witness ==
  /\ config.policy = "ExpRoulette" /\ config.BRatio = Ratio(1, 1)
  /\ Len(uids_) = 2 /\ Range(uids_) \subseteq DOMAIN scores
  /\ status = "assert"

\* ------------------------------------------------- claims: determinism

\* The weight each stored, weighted uid of a RouletteCacheState has: the
\* weight table read through the slot-to-uid alignment.
WeightOfUid(cs) ==
  [x \in {cs.uids[p] : p \in 1..Len(cs.indexMap)} |->
     cs.indexMap[CHOOSE p \in 1..Len(cs.indexMap) : cs.uids[p] = x]]

\* An outcome of a weighted call without the copy of the random source.
WithoutRand(o) ==
  IF o.cache.kind = "Roulette" THEN [o EXCEPT !.cache.rand = RandomOf(0)] ELSE o

\* Two RankedSelector outcomes answer every query alike: present or not, of
\* the same length, with the same score at every place.
SameRankedAnswers(o1, o2) ==
  /\ o1.status = o2.status
  /\ o1.status = "ok" =>
       \A m \in 0..(MaxN + 1) :
         LET q1 == RankedCacheQuery(o1.cache, m)
             q2 == RankedCacheQuery(o2.cache, m)
         IN /\ q1.has = q2.has /\ Len(q1.val) = Len(q2.val)
            /\ \A i \in 1..Len(q1.val) : scores[q1.val[i]] = scores[q2.val[i]]

\* Two weighted outcomes have the same weight table and alignment: as many
\* slots, the same weight for every uid, the same default count, and the
\* same table slot by slot when the uids are stored in the same order.
SameWeightTables(o1, o2) ==
  /\ o1.status = o2.status
  /\ o1.status = "ok" =>
       /\ IndexMapGetSize(o1.cache.indexMap) = IndexMapGetSize(o2.cache.indexMap)
       /\ WeightOfUid(o1.cache) = WeightOfUid(o2.cache)
       /\ o1.cache.default_n = o2.cache.default_n
       /\ o1.cache.uids = o2.cache.uids => o1.cache.indexMap = o2.cache.indexMap

\* C17: what a Selector call produces is determined by the configuration and
\* (uids, scores, n), not by the instance.  A RankedSelector has no state:
\* all its outcomes answer every query alike, and are one outcome when no two
\* scores are equal.  The outcomes of a weighted selector are the same
\* whatever random source the instance holds, but for the copy of it in the
\* cache state, and, where the call reads only defined values, all have the
\* same weight tables and alignment (each outcome is compared with one of
\* them: the relations are equivalences).
C17_SameConfigSameCacheState ==
  status = "idle" =>
    IF config.policy = "Ranked"
    THEN \A n \in Counts :
           \A S \in {RankedSelect(config, uids_, scores, n)} :
             \A o1 \in {CHOOSE o \in S : TRUE} : \A o2 \in S :
               /\ SameRankedAnswers(o1, o2)
               /\ (\A x, y \in DOMAIN scores : scores[x] = scores[y] => x = y) => o1 = o2
    ELSE \A n \in DrawCounts :
           \A S \in {WeightedSelect(config, uids_, scores, rand, n)} :
             /\ \A T \in {{WithoutRand(o) : o \in S}} :
                  \A s \in (0..(RandMod - 1)) \ {rand.state} :
                    {WithoutRand(o) : o \in WeightedSelect(config, uids_, scores, RandomOf(s), n)} = T
             /\ \A D \in {{o \in S : ~o.ub}} :
                  D # {} => \A o1 \in {CHOOSE o \in D : TRUE} : \A o2 \in D :
                              SameWeightTables(o1, o2)

\* C17: a weighted selector was called on three candidates of which two have
\* the same score, and weighted all three.
C17_Witness ==
  /\ Weighted /\ status = "ok" /\ Len(uids_) = 3
  /\ Cardinality({scores[x] : x \in DOMAIN scores}) = 2
  /\ IndexMapGetSize(cache.indexMap) = 3

\* ------------------------------------------------- claims: thresholds

\* C21: with the threshold "no limit" (negative numerator) every candidate
\* qualifies: a RankedCacheState stores min(n, number of candidates) uids,
\* and the index of a RouletteCacheState has a slot for every candidate.
C21_NoLimitAdmitsAll ==
  (config.ThreshRatio.num < 0 /\ status = "ok") =>
    /\ cache.kind = "Ranked" =>
         Len(cache.uids) = Min2(cache.requestSize, Len(uids_))
    /\ cache.kind = "Roulette" =>
         /\ IndexMapGetSize(cache.indexMap) = Len(uids_)
         /\ {cache.uids[p] : p \in 1..IndexMapGetSize(cache.indexMap)} = Range(uids_)

\* C21: without a limit a RankedSelector asked for three stored all three
\* candidates, the one at 0.9 among them.
C21_Witness ==
  /\ config.policy = "Ranked" /\ config.ThreshRatio.num < 0 /\ status = "ok"
  /\ Len(uids_) = 3 /\ Len(cache.uids) = 3
  /\ \E x \in Range(cache.uids) : scores[x] = Rat(9, 10)

\* ------------------------------------------- claims: baseline and weights

\* The snapshot has a score for every candidate, and for nothing else.
Covered == Range(uids_) = DOMAIN scores

\* C22: on a snapshot with a score for every candidate, the normalized score
\* of every qualifying uid is >= 0 in whatever order the partition leaves
\* them, so the assertion of the weighting loop holds in every pass: a call
\* of a valid configuration fails an assertion only on a negative baseline.
\* (With no candidate there is no pass of the loop.)  Stated of the state the
\* call leaves, before any query.
C22_NormalizedNonNegative ==
  (Weighted /\ ConfigOk(config) /\ Covered /\ status # "idle" /\ queryN = -1) =>
    IF uids_ = <<>> THEN Qualifying = {}
    ELSE \A b \in {RMin(MinElement(scores), ThreshOf(config.MaxBaselineRatio))} :
           /\ \A x \in Qualifying : RLe(Zero, RSub(scores[x], b))
           /\ \A u \in Partition(uids_, scores, ThreshOf(config.ThreshRatio)) :
                NormalizedOk(u, scores, b,
                             PartitionPoint(uids_, scores, ThreshOf(config.ThreshRatio)))
           /\ RLe(Zero, b) => status = "ok"

\* C22: a call has weighted two candidates, one with a score above the
\* minimum and above the baseline cap.
C22_Witness ==
  /\ Weighted /\ status = "ok" /\ Covered
  /\ IndexMapGetSize(cache.indexMap) = 2
  /\ config.MaxBaselineRatio.num >= 0
  /\ \E x, y \in Qualifying : RLt(scores[x], scores[y])

\* The least score of the candidates, all of them, a non-empty sequence.
CandidateMin ==
  CHOOSE m \in {scores[uids_[i]] : i \in DOMAIN uids_} :
    \A i \in DOMAIN uids_ : RLe(m, scores[uids_[i]])

\* min(least score of all candidates, max_baseline), max_baseline being
\* +infinity for a negative numerator.
CappedCandidateMin ==
  IF config.MaxBaselineRatio.num >= 0
       /\ RLt(Rat(config.MaxBaselineRatio.num, config.MaxBaselineRatio.den), CandidateMin)
  THEN Rat(config.MaxBaselineRatio.num, config.MaxBaselineRatio.den)
  ELSE CandidateMin

\* C23: the baseline of a weighted call is min(least score of all the
\* candidates, max_baseline): every weight of the cache state is the weight
\* under that baseline, and the baseline is at most max_baseline, so that a
\* call of a valid configuration with a non-negative baseline returns.
C23_BaselineIsCappedMinimum ==
  (Weighted /\ ConfigOk(config) /\ Covered /\ uids_ # <<>> /\ status # "idle") =>
    /\ RLe(CappedCandidateMin, ThreshOf(config.MaxBaselineRatio))
    /\ RLe(Zero, CappedCandidateMin) => status = "ok"
    /\ status = "ok" =>
         \A p \in 1..IndexMapGetSize(cache.indexMap) :
           cache.indexMap[p] = Weight(config, scores[cache.uids[p]], CappedCandidateMin)

\* C23: the least score, 0.4, is above the cap 0.2 and the threshold 0.5 lets
\* one of two candidates through: its weight is taken against the cap.
C23_Witness ==
  /\ Weighted /\ status = "ok" /\ Covered /\ Len(uids_) = 2
  /\ config.MaxBaselineRatio = Ratio(1, 5) /\ config.ThreshRatio = Ratio(1, 2)
  /\ CandidateMin = Rat(4, 10)
  /\ IndexMapGetSize(cache.indexMap) = 1

\* A weighted selector of the given policy has returned a cache state for a
\* non-empty snapshot with a score for exactly its candidates.
WeightedBy(policy) ==
  /\ config.policy = policy /\ status = "ok" /\ Covered /\ uids_ # <<>>

Slots == 1..IndexMapGetSize(cache.indexMap)

\* The normalized score of the uid stored at place p.
NormalizedAt(p) == RSub(scores[cache.uids[p]], CappedCandidateMin)

\* C24: the Roulette weight of slot p is 1 / (skew + normalized score of uid
\* p): strictly positive, at most 1 / skew, and of two qualifying uids the
\* one with the smaller score has the weight that is greater or equal.
C24_RouletteWeights ==
  WeightedBy("Roulette") =>
    \A skew \in {Rat(config.SkewRatio.num, config.SkewRatio.den)} :
      /\ \A p \in Slots :
           /\ RMul(cache.indexMap[p], RAdd(skew, NormalizedAt(p))) = One
           /\ RLt(Zero, cache.indexMap[p])
           /\ RLe(RMul(cache.indexMap[p], skew), One)
      /\ \A p, q \in Slots :
           RLe(scores[cache.uids[p]], scores[cache.uids[q]])
             => RLe(cache.indexMap[q], cache.indexMap[p])

\* C24: two candidates at 0.1 and 0.4 with skew 0.1 and no cap: weights 10
\* and 2.5.
C24_Witness ==
  /\ WeightedBy("Roulette") /\ Len(uids_) = 2
  /\ WeightOfUid(cache) = (uids_[1] :> Rat(10, 1)) @@ (uids_[2] :> Rat(5, 2))

\* C25: the ExpRoulette weight of slot p is b ^ ((c * normalized score of
\* uid p) ^ z): within [0, 1], exactly 1 for a normalized score of 0, and
\* non-increasing in the normalized score.
C25_ExpRouletteWeights ==
  WeightedBy("ExpRoulette") =>
    \A b \in {Rat(config.BRatio.num, config.BRatio.den)} :
    \A c \in {Rat(config.CRatio.num, config.CRatio.den)} :
    \A z \in {Rat(config.ZRatio.num, config.ZRatio.den)} :
    \A normalized \in {[p \in Slots |-> NormalizedAt(p)]} :
      /\ \A p \in Slots :
           /\ cache.indexMap[p] = Pow(b, Pow(RMul(c, normalized[p]), z))
           /\ RLe(Zero, cache.indexMap[p]) /\ RLe(cache.indexMap[p], One)
           /\ normalized[p] = Zero => cache.indexMap[p] = One
      /\ \A p, q \in Slots :
           RLe(normalized[p], normalized[q])
             => RLe(cache.indexMap[q], cache.indexMap[p])

\* C25: two candidates at 0.1 and 0.4 with b = 1/2, c = 10, z = 1 and no
\* cap: weights 1 and 1/8.
C25_Witness ==
  /\ WeightedBy("ExpRoulette") /\ Len(uids_) = 2
  /\ WeightOfUid(cache) = (uids_[1] :> One) @@ (uids_[2] :> Rat(1, 8))

\* C29: no step, a query of a RouletteCacheState among them, advances the
\* Selector's random source, and a query changes no member of the cache
\* state but its own source; a second cache state the Selector creates from
\* the same snapshot, with the same stored order, is the first one as it was
\* created, and so answers every sequence of queries as the first does.
C29_OwnRandomSource ==
  /\ [](cache.kind = "Roulette" /\ ~ub /\ queryN = -1 =>
         \A S \in {WeightedSelect(config, uids_, scores, rand, 0)} :
           \A o \in S :
             (o.status = "ok" /\ ~o.ub /\ o.cache.uids = cache.uids)
               => o.cache = cache)
  /\ [][/\ rand' = rand
        /\ cache.kind = "Roulette" =>
             [cache' EXCEPT !.rand = rand] = [cache EXCEPT !.rand = rand]]_vars

\* C29: a query drew from the cache state's copy of the random source, which
\* has moved on from the Selector's.
C29_Witness ==
  /\ RouletteQueried /\ result.has /\ drawn >= 1
  /\ cache.rand # rand

============================================================================
